---- MODULE Spec2Model ----
(***************************************************************************)
(* Model of the ouro-rs RTP/RTCP packet codec and of the RTP packetizer.   *)
(*                                                                         *)
(* Byte buffers are sequences of naturals in 0..255; a Rust index i of a   *)
(* slice is element i+1 of the sequence.  A u32 is kept as its two 16-bit  *)
(* halves [hi, lo] so that all 32 bits are present.  A usize is kept as an *)
(* integer in two's-complement view: a negative integer v stands for the   *)
(* usize 2^64 + v (the result of a wrapped subtraction).                   *)
(* A Rust panic (index out of bounds, division by zero, arithmetic         *)
(* overflow in a build with overflow checks) is the outcome "Panic".       *)
(***************************************************************************)
EXTENDS Integers, Sequences, FiniteSets, TLC

VARIABLES
    pc,              \* "input" | "done" for the decoders; "ready" | "panicked" for the packetizer
    slice,           \* the byte buffer handed to a decoder
    result,          \* what the decoder returned (or NoResult)
    packetizer,      \* the RtpPacketizer's fields
    overflow_checks, \* whether the build panics on arithmetic overflow (debug) or wraps (release)
    payload,         \* the payload of the last packetize call
    frames,          \* the frame duration of the last packetize call
    packets,         \* the Vec returned by the last packetize call
    emitted,         \* sequence numbers of every packet built so far, in emission order
    calls            \* number of packetize calls made

vars == <<pc, slice, result, packetizer, overflow_checks, payload, frames, packets, emitted, calls>>

----------------------------------------------------------------------------
(* Bounds of the model. *)

\* Longest buffer handed to the RTP decoder.
MaxLen == 32
\* Largest padding byte tried besides 255.
MaxPad == 6

----------------------------------------------------------------------------
(* Machine arithmetic. *)

U8Modulus == 256
U16Modulus == 65536

\* slice[i] with Rust's 0-based index.
At(s, i) == s[i + 1]

\* &slice[a..b]: the bytes at indexes a .. b-1.
Range(s, a, b) == SubSeq(s, a + 1, b)

\* u16::from_be_bytes([b0, b1])
U16FromBe(b0, b1) == b0 * U8Modulus + b1

\* u32::from_be_bytes([b0, b1, b2, b3]) as 16-bit halves.
U32FromBe(b0, b1, b2, b3) == [hi |-> U16FromBe(b0, b1), lo |-> U16FromBe(b2, b3)]

U32Zero == [hi |-> 0, lo |-> 0]

\* A mutant of U32WrappingAdd: the addition saturates at u32::MAX.
U32SaturatingAdd(a, b) ==
    LET lo == a.lo + b.lo
        hi == a.hi + b.hi + (lo \div U16Modulus)
    IN  IF hi >= U16Modulus
        THEN [hi |-> U16Modulus - 1, lo |-> U16Modulus - 1]
        ELSE [hi |-> hi, lo |-> lo % U16Modulus]

\* u32::wrapping_add on 16-bit halves.
U32WrappingAdd(a, b) ==
    LET lo == a.lo + b.lo
        hi == a.hi + b.hi + (lo \div U16Modulus)
    IN  [hi |-> hi % U16Modulus, lo |-> lo % U16Modulus]

\* u16::wrapping_add
U16WrappingAdd(a, b) == (a + b) % U16Modulus

\* Option<T>
None == <<>>
Some(x) == <<x>>

----------------------------------------------------------------------------
(* Results of the decoders. *)

Err(kind, val) == [kind |-> kind, val |-> val]
Ok(packet) == [kind |-> "Ok", packet |-> packet]
\* Index-out-of-bounds panic of slice[index] with index >= slice.len().
Panic(index) == [kind |-> "Panic", val |-> index]
NoResult == [kind |-> "None"]

----------------------------------------------------------------------------
(* RTP codec (rtp.rs). *)

RtpPacket_HEADER_SIZE == 12
RTP_VERSION == 2
CSRC_CAPACITY == 15

RtpPacket_new(mark, payload_type, seq_number, timestamp, ssrc, pl) ==
    [ cc |-> 0,
      payload_type |-> payload_type,
      seq_number |-> seq_number,
      timestamp |-> timestamp,
      ssrc |-> ssrc,
      csrc |-> [i \in 0..(CSRC_CAPACITY - 1) |-> U32Zero],
      extension |-> None,
      payload |-> pl,
      mark |-> mark ]

\* The offset the CSRC loop reads entry `index` from.
CsrcOffset(off, cc, index) == off + cc * 4

\* The loop `for index in 0..cc` of from_slice, from iteration `index` on:
\* the filled array, or the panic of the first out-of-bounds byte read.
RECURSIVE CsrcLoop(_, _, _, _, _)
CsrcLoop(s, cc, off, index, csrc) ==
    IF index >= cc THEN [kind |-> "Ok", csrc |-> csrc]
    ELSE LET csrc_off == CsrcOffset(off, cc, index)
             oob == {i \in csrc_off..(csrc_off + 3) : i >= Len(s)}
         IN  IF oob # {}
             THEN Panic(CHOOSE i \in oob : \A j \in oob : i <= j)
             ELSE CsrcLoop(s, cc, off, index + 1,
                      [csrc EXCEPT ![index] =
                          U32FromBe(At(s, csrc_off), At(s, csrc_off + 1),
                                    At(s, csrc_off + 2), At(s, csrc_off + 3))])

\* A mutant of RtpVersion: the version is taken from the low two bits.
RtpVersion_LowBits(s) == At(s, 0) % 4

\* slice[0] >> 6
RtpVersion(s) == At(s, 0) \div 64

\* The part of from_slice after the CSRC loop.
RtpAfterCsrc(s, cc, pad_flag, off0, csrc) ==
    LET slice_len == Len(s)
        ext_flag == (At(s, 0) \div 16) % 2 # 0
    IN
    IF off0 > slice_len THEN Err("InvalidCSRCCount", cc)
    ELSE IF ext_flag /\ off0 + 4 > slice_len THEN Err("MissingExtension", 0)
    ELSE
    LET ext_len == IF ext_flag
                   THEN U16FromBe(At(s, off0 + 2), At(s, off0 + 3)) * 4 + 4
                   ELSE 0
    IN
    IF ext_flag /\ off0 + ext_len > slice_len THEN Err("InvalidExtensionLength", ext_len)
    ELSE
    LET extension == IF ext_flag
                     THEN Some([head |-> U16FromBe(At(s, off0), At(s, off0 + 1)),
                                data |-> Range(s, off0 + 4, off0 + ext_len)])
                     ELSE None
        off == off0 + ext_len
        pad_len == At(s, slice_len - 1) * pad_flag
    IN
    IF off + pad_len > slice_len THEN Err("InvalidPadding", pad_len)
    ELSE Ok([ cc |-> cc,
              payload_type |-> At(s, 1) % 128,
              seq_number |-> U16FromBe(At(s, 2), At(s, 3)),
              timestamp |-> U32FromBe(At(s, 4), At(s, 5), At(s, 6), At(s, 7)),
              ssrc |-> U32FromBe(At(s, 8), At(s, 9), At(s, 10), At(s, 11)),
              csrc |-> csrc,
              extension |-> extension,
              payload |-> Range(s, off, slice_len - pad_len),
              mark |-> At(s, 1) \div 128 # 0 ])

\* RtpPacket::from_slice
RtpPacket_from_slice(s) ==
    LET slice_len == Len(s) IN
    IF slice_len < RtpPacket_HEADER_SIZE THEN Err("InvalidLen", slice_len)
    ELSE
    LET version == RtpVersion(s) IN
    IF version # RTP_VERSION THEN Err("InvalidVersion", version)
    ELSE
    LET cc == At(s, 0) % 16
        pad_flag == (At(s, 0) \div 32) % 2
        off == RtpPacket_HEADER_SIZE + cc * 4
        loop == CsrcLoop(s, cc, off, 0, [i \in 0..(CSRC_CAPACITY - 1) |-> U32Zero])
    IN
    IF loop.kind = "Panic" THEN loop
    ELSE RtpAfterCsrc(s, cc, pad_flag, off, loop.csrc)

----------------------------------------------------------------------------
(* Buffers handed to the RTP decoder: every first byte (version, padding   *)
(* flag, extension flag, CSRC count), every length up to MaxLen, a filler  *)
(* that differs from byte to byte, a chosen extension word count at the    *)
(* place the header lays it out, and a chosen last byte.                   *)

Fill(i) == (i * 37 + 11) % U8Modulus

WordCounts == { <<0, 0>>, <<0, 1>>, <<153, 153>> }
LastBytes == (0..MaxPad) \cup {255}

MkSlice(len, b0, wc, last) ==
    LET wcAt == RtpPacket_HEADER_SIZE + (b0 % 16) * 4 + 2 IN
    [i \in 1..len |->
        IF i = 1 THEN b0
        ELSE IF i = len THEN last
        ELSE IF i - 1 = wcAt THEN wc[1]
        ELSE IF i - 1 = wcAt + 1 THEN wc[2]
        ELSE Fill(i - 1)]

RtpSlices ==
    { MkSlice(len, b0, wc, last) :
        len \in 0..MaxLen, b0 \in 0..(U8Modulus - 1), wc \in WordCounts, last \in LastBytes }

IdlePacketizer ==
    [mtu |-> 0, payload_type |-> 0, seq_number |-> 0, timestamp |-> U32Zero, ssrc |-> U32Zero]

InitRtp ==
    /\ pc = "input"
    /\ slice \in RtpSlices
    /\ result = NoResult
    /\ packetizer = IdlePacketizer
    /\ overflow_checks = FALSE
    /\ payload = <<>>
    /\ frames = U32Zero
    /\ packets = <<>>
    /\ emitted = <<>>
    /\ calls = 0

RtpDecode ==
    /\ pc = "input"
    /\ result' = RtpPacket_from_slice(slice)
    /\ pc' = "done"
    /\ UNCHANGED <<slice, packetizer, overflow_checks, payload, frames, packets, emitted, calls>>

NextRtp == RtpDecode

SpecRtp == InitRtp /\ [][NextRtp]_vars

----------------------------------------------------------------------------
(* RTCP codec (rtcp.rs). *)

RtcpPacket_HEADER_SIZE == 4
\* const VERSION: u8 = 2 << 6
RtcpPacket_VERSION == 2 * 64
REPORT_BLOCK_SIZE == 24

\* slice[0] >> 6
RtcpVersion(s) == At(s, 0) \div 64

\* RtcpPacket::from_slice
RtcpPacket_from_slice(s) ==
    LET slice_len == Len(s) IN
    IF slice_len < RtcpPacket_HEADER_SIZE THEN Err("InvalidLen", slice_len)
    ELSE
    LET version == RtcpVersion(s) IN
    IF version # RtcpPacket_VERSION THEN Err("InvalidVersion", version)
    ELSE
    LET cc == At(s, 0) % 16
        pad_flag == (At(s, 0) \div 32) % 2
        off == RtcpPacket_HEADER_SIZE + cc * REPORT_BLOCK_SIZE + REPORT_BLOCK_SIZE
    IN
    IF off > slice_len THEN Err("PacketTooShort", cc)
    ELSE
    LET pad_len == At(s, slice_len - 1) * pad_flag IN
    IF off + pad_len > slice_len THEN Err("InvalidPadding", pad_len)
    ELSE Ok([ cc |-> cc,
              payload_type |-> At(s, 1) % 128,
              length |-> U16FromBe(At(s, 2), At(s, 3)),
              payload |-> Range(s, off, slice_len - pad_len) ])

\* Buffers handed to the RTCP decoder: every first byte, every length up to
\* MaxLen, a filler that differs from byte to byte and a chosen last byte.
MkRtcpSlice(len, b0, last) ==
    [i \in 1..len |-> IF i = 1 THEN b0 ELSE IF i = len THEN last ELSE Fill(i - 1)]

RtcpSlices ==
    { MkRtcpSlice(len, b0, last) :
        len \in 0..MaxLen, b0 \in 0..(U8Modulus - 1), last \in LastBytes }

InitRtcp ==
    /\ pc = "input"
    /\ slice \in RtcpSlices
    /\ result = NoResult
    /\ packetizer = IdlePacketizer
    /\ overflow_checks = FALSE
    /\ payload = <<>>
    /\ frames = U32Zero
    /\ packets = <<>>
    /\ emitted = <<>>
    /\ calls = 0

RtcpDecode ==
    /\ pc = "input"
    /\ result' = RtcpPacket_from_slice(slice)
    /\ pc' = "done"
    /\ UNCHANGED <<slice, packetizer, overflow_checks, payload, frames, packets, emitted, calls>>

NextRtcp == RtcpDecode

SpecRtcp == InitRtcp /\ [][NextRtcp]_vars

----------------------------------------------------------------------------
(* RTCP construction (rtcp.rs). *)

\* Longest short payload handed to RtcpPacket::new.
MaxRtcpPayload == 20

\* payload.len() as u16: the cast keeps the low 16 bits.
UsizeAsU16(n) == n % U16Modulus

\* RtcpPacket::new
RtcpPacket_new(payload_type, pl) ==
    [ cc |-> 0,
      payload_type |-> payload_type,
      length |-> UsizeAsU16(Len(pl)),
      payload |-> pl ]

\* Payloads handed to RtcpPacket::new: every short one, and those around the
\* range of the 16-bit length field.
RtcpPayloadLens == (0..MaxRtcpPayload) \cup {U16Modulus - 1, U16Modulus, U16Modulus + 1}
\* The packet types RFC 3550 defines: SR, RR, SDES, BYE, APP.
RtcpPayloadTypes == 200..204

InitRtcpNew ==
    /\ pc = "input"
    /\ slice = <<>>
    /\ result = NoResult
    /\ packetizer = IdlePacketizer
    /\ overflow_checks = FALSE
    /\ \E len \in RtcpPayloadLens : payload = [i \in 1..len |-> Fill(i - 1)]
    /\ frames = U32Zero
    /\ packets = <<>>
    /\ emitted = <<>>
    /\ calls = 0

\* A call of RtcpPacket::new; the packet it returns is kept as Ok(packet).
RtcpConstruct ==
    /\ pc = "input"
    /\ \E payload_type \in RtcpPayloadTypes :
          result' = Ok(RtcpPacket_new(payload_type, payload))
    /\ pc' = "done"
    /\ UNCHANGED <<slice, packetizer, overflow_checks, payload, frames, packets, emitted, calls>>

NextRtcpNew == RtcpConstruct

SpecRtcpNew == InitRtcpNew /\ [][NextRtcpNew]_vars

----------------------------------------------------------------------------
(* RTP packetizer (rtp.rs). *)

\* Bounds of the packetizer model.
MaxMtu == 15
MaxPayload == 5
MaxCalls == 2

\* A mutant of DivCeil: the division rounds down.
DivCeil_Floor(a, b) == IF b < 0 THEN 0 ELSE a \div b

\* usize::div_ceil(a, b) for b # 0, with 0 <= a; a negative b is a usize
\* above every slice length (a wrapped subtraction).
DivCeil(a, b) ==
    LET d == IF b < 0 THEN 0 ELSE a \div b
        r == IF b < 0 THEN a ELSE a % b
    IN  IF r > 0 THEN d + 1 ELSE d

\* usize::min(a, b) with 0 <= b; a negative a is a usize above b.
UsizeMin(a, b) == IF a < 0 \/ b < a THEN b ELSE a

\* A mutant of IsLastChunk: the marker test is off by one.
IsLastChunk_OffByOne(index, chunk_count) == index = chunk_count

\* index == (chunk_count - 1)
IsLastChunk(index, chunk_count) == index = chunk_count - 1

\* A mutant of NextSeqNumber: the addition does not wrap.
NextSeqNumber_NoWrap(seq_number) == seq_number + 1

\* self.seq_number.wrapping_add(1)
NextSeqNumber(seq_number) == U16WrappingAdd(seq_number, 1)

\* The loop `for index in 0..chunk_count` of packetize, from iteration `index` on.
RECURSIVE PacketizeLoop(_, _, _, _, _, _)
PacketizeLoop(self, pl, chunk_size, chunk_count, index, acc) ==
    IF index >= chunk_count THEN [self |-> self, packets |-> acc]
    ELSE LET self1 == [self EXCEPT !.seq_number = NextSeqNumber(self.seq_number)]
             off == chunk_size * index
             span == UsizeMin(chunk_size, Len(pl) - off)
             packet == RtpPacket_new(IsLastChunk(index, chunk_count),
                                     self1.payload_type, self1.seq_number,
                                     self1.timestamp, self1.ssrc,
                                     Range(pl, off, off + span))
         IN  PacketizeLoop(self1, pl, chunk_size, chunk_count, index + 1, Append(acc, packet))

\* RtpPacketizer::packetize: the packetizer afterwards, the returned packets,
\* and whether the call panicked (then nothing is returned).
packetize(self, pl, fr, checks) ==
    LET self1 == [self EXCEPT !.timestamp = U32WrappingAdd(self.timestamp, fr)] IN
    IF self1.mtu < RtpPacket_HEADER_SIZE /\ checks
    THEN [panic |-> TRUE, self |-> self1, packets |-> <<>>]   \* attempt to subtract with overflow
    ELSE
    LET chunk_size == self1.mtu - RtpPacket_HEADER_SIZE IN
    IF chunk_size = 0
    THEN [panic |-> TRUE, self |-> self1, packets |-> <<>>]   \* div_ceil: division by zero
    ELSE
    LET chunk_count == DivCeil(Len(pl), chunk_size)
        loop == PacketizeLoop(self1, pl, chunk_size, chunk_count, 0, <<>>)
    IN  [panic |-> FALSE, self |-> loop.self, packets |-> loop.packets]

\* Inputs of the packetizer model.
\* tests::packetize_two_packets: an MTU of 100 and a frame of 128 bytes.
TestMtu == 100
TestFrameLen == 128
MtuValues == ((RtpPacket_HEADER_SIZE - 1)..MaxMtu) \cup {TestMtu}
SeqStarts == {0, 27023, U16Modulus - 2}
TimestampStarts == {U32Zero, [hi |-> U16Modulus - 1, lo |-> U16Modulus - 1]}
FrameDurations == {U32Zero, [hi |-> 0, lo |-> 2000], [hi |-> U16Modulus - 1, lo |-> U16Modulus - 1]}
\* Every short frame for every packetizer; the test's long frame for the
\* packetizers that cut it in a few chunks.
PayloadLens(mtu) == (0..MaxPayload) \cup (IF mtu >= TestMtu THEN {TestFrameLen} ELSE {})
PayloadOfLen(len) == [i \in 1..len |-> Fill(i - 1)]

\* RtpPacketizer::new: mtu, payload_type and ssrc as given, random sequence
\* number and timestamp.
RtpPacketizer_new(mtu, payload_type, ssrc, seq_number, timestamp) ==
    [mtu |-> mtu, payload_type |-> payload_type, seq_number |-> seq_number,
     timestamp |-> timestamp, ssrc |-> ssrc]

InitPkt ==
    /\ pc = "ready"
    /\ slice = <<>>
    /\ result = NoResult
    /\ \E mtu \in MtuValues, sq \in SeqStarts, ts \in TimestampStarts :
          packetizer = RtpPacketizer_new(mtu, 98, [hi |-> 4660, lo |-> 43981], sq, ts)
    /\ overflow_checks \in BOOLEAN
    /\ payload = <<>>
    /\ frames = U32Zero
    /\ packets = <<>>
    /\ emitted = <<>>
    /\ calls = 0

SeqNumbersOf(ps) == [i \in 1..Len(ps) |-> ps[i].seq_number]

Packetize ==
    /\ pc = "ready"
    /\ calls < MaxCalls
    /\ \E len \in PayloadLens(packetizer.mtu), fr \in FrameDurations :
          LET r == packetize(packetizer, PayloadOfLen(len), fr, overflow_checks) IN
          /\ payload' = PayloadOfLen(len)
          /\ frames' = fr
          /\ packetizer' = r.self
          /\ packets' = r.packets
          /\ emitted' = emitted \o SeqNumbersOf(r.packets)
          /\ pc' = IF r.panic THEN "panicked" ELSE "ready"
    /\ calls' = calls + 1
    /\ UNCHANGED <<slice, result, overflow_checks>>

NextPkt == Packetize

SpecPkt == InitPkt /\ [][NextPkt]_vars

----------------------------------------------------------------------------
(* The layout of an RTP datagram as the specification states it, read      *)
(* directly off the buffer.                                                *)

WireVersion(s) == s[1] \div 64
WirePadFlag(s) == (s[1] \div 32) % 2 = 1
WireExtFlag(s) == (s[1] \div 16) % 2 = 1
WireCc(s) == s[1] % 16
WireExtOffset(s) == 12 + WireCc(s) * 4
WireWordCount(s) == s[WireExtOffset(s) + 3] * 256 + s[WireExtOffset(s) + 4]
WireExtLength(s) == IF WireExtFlag(s) THEN WireWordCount(s) * 4 + 4 ELSE 0
WirePadding(s) == IF WirePadFlag(s) THEN s[Len(s)] ELSE 0

\* The buffer passes the length, version, CSRC-count and extension checks.
WirePassesChecks(s) ==
    /\ Len(s) >= 12
    /\ WireVersion(s) = 2
    /\ WireExtOffset(s) <= Len(s)
    /\ WireExtFlag(s) => /\ WireExtOffset(s) + 4 <= Len(s)
                         /\ WireExtOffset(s) + WireExtLength(s) <= Len(s)

RtpOutcomes ==
    {"Ok", "InvalidLen", "InvalidVersion", "InvalidCSRCCount", "MissingExtension",
     "InvalidExtensionLength", "InvalidPadding"}

----------------------------------------------------------------------------
(* Claims about RTP decoding, under SpecRtp. *)

\* C1: RTP decode is total: for every buffer it returns a packet or one of
\* the RtpError kinds, and never panics on a byte index at or beyond the
\* buffer's length.
C1_DecodeTotal ==
    pc = "done" => result.kind \in RtpOutcomes

\* C6: for a buffer that passes the length, version, CSRC-count and
\* extension checks, decode fails with InvalidPadding(n) iff the padding flag
\* is set and extension_offset + extension_length + n > length; otherwise it
\* succeeds with the payload from extension_offset + extension_length to
\* length - n.
C6_PaddingExactness ==
    (pc = "done" /\ WirePassesChecks(slice)) =>
        LET n == WirePadding(slice)
            off == WireExtOffset(slice) + WireExtLength(slice)
        IN  IF WirePadFlag(slice) /\ off + n > Len(slice)
            THEN result = Err("InvalidPadding", n)
            ELSE /\ result.kind = "Ok"
                 /\ result.packet.payload = SubSeq(slice, off + 1, Len(slice) - n)

\* C7: for a version-2 buffer of at least 12 bytes that holds its CSRC list:
\* with the extension flag set, decode fails with MissingExtension when the
\* 4-byte sub-header does not fit, with InvalidExtensionLength(word_count*4+4)
\* when the extension does not fit, and otherwise the decoded extension is
\* present with exactly word_count*4 data bytes; with the flag clear the
\* packet has no extension.
C7_ExtensionLength ==
    (pc = "done" /\ Len(slice) >= 12 /\ WireVersion(slice) = 2
                 /\ WireExtOffset(slice) <= Len(slice)) =>
        IF WireExtFlag(slice)
        THEN IF WireExtOffset(slice) + 4 > Len(slice)
             THEN result.kind = "MissingExtension"
             ELSE IF WireExtOffset(slice) + WireExtLength(slice) > Len(slice)
             THEN result = Err("InvalidExtensionLength", WireExtLength(slice))
             ELSE /\ result.kind \in {"Ok", "InvalidPadding"}
                  /\ result.kind = "Ok" =>
                        /\ Len(result.packet.extension) = 1
                        /\ Len(result.packet.extension[1].data) = WireWordCount(slice) * 4
        ELSE /\ result.kind \in {"Ok", "InvalidPadding"}
             /\ result.kind = "Ok" => result.packet.extension = <<>>

\* C8: for a version-2 buffer of at least 12 bytes whose CSRC count cc has
\* 12 + cc*4 > length, decode returns InvalidCSRCCount(cc).
C8_InvalidCsrcCount ==
    (pc = "done" /\ Len(slice) >= 12 /\ WireVersion(slice) = 2
                 /\ 12 + WireCc(slice) * 4 > Len(slice)) =>
        result = Err("InvalidCSRCCount", WireCc(slice))

\* C10: a buffer of at least 12 bytes whose top two bits of byte 0 are not
\* binary 10 decodes to InvalidVersion(v), v the two-bit value, whatever the
\* other bytes are; a buffer shorter than 12 bytes decodes to
\* InvalidLen(length), whatever its version bits.
C10_VersionGate ==
    pc = "done" =>
        /\ (Len(slice) >= 12 /\ WireVersion(slice) # 2) =>
               result = Err("InvalidVersion", WireVersion(slice))
        /\ Len(slice) < 12 => result = Err("InvalidLen", Len(slice))

\* C10's case: a full-length buffer of version 3 with the CSRC count,
\* extension and padding bits all set has been refused for its version.
C10_Witness ==
    /\ pc = "done"
    /\ Len(slice) = MaxLen
    /\ slice[1] = 255
    /\ result = Err("InvalidVersion", 3)

\* The big-endian 32-bit value at buffer bytes at .. at+4, as 16-bit halves.
WireU32(s, at) ==
    [hi |-> s[at + 1] * 256 + s[at + 2], lo |-> s[at + 3] * 256 + s[at + 4]]

\* C13: for a buffer decode accepts with CSRC count cc, the decoded CSRC
\* list has its first cc entries equal, in order, to the big-endian 32-bit
\* values at buffer bytes 12+4*i .. 12+4*i+4 for i = 0..cc-1, and the payload
\* starts after that region.
C13_CsrcList ==
    (pc = "done" /\ result.kind = "Ok") =>
        /\ \A i \in 0..(WireCc(slice) - 1) :
              result.packet.csrc[i] = WireU32(slice, 12 + 4 * i)
        /\ result.packet.payload =
              SubSeq(slice, WireExtOffset(slice) + WireExtLength(slice) + 1,
                     Len(slice) - WirePadding(slice))

----------------------------------------------------------------------------
(* Claims about RTCP decoding, under SpecRtcp. *)

RtcpPayloadOffset(s) == 4 + (s[1] % 16) * 24 + 24
RtcpPadding(s) == s[Len(s)] * ((s[1] \div 32) % 2)

\* C9: RTCP decode accepts well-formed version-2 input: a buffer of at least
\* 4 bytes with top two bits 2, payload_offset <= length and payload_offset +
\* padding_length <= length decodes to a packet whose payload runs from
\* payload_offset to length - padding_length; InvalidVersion(v) is returned
\* only when the top two bits differ from 2.
C9_RtcpAcceptsVersion2 ==
    pc = "done" =>
        /\ (/\ Len(slice) >= 4
            /\ slice[1] \div 64 = 2
            /\ RtcpPayloadOffset(slice) <= Len(slice)
            /\ RtcpPayloadOffset(slice) + RtcpPadding(slice) <= Len(slice)) =>
               /\ result.kind = "Ok"
               /\ result.packet.payload =
                      SubSeq(slice, RtcpPayloadOffset(slice) + 1, Len(slice) - RtcpPadding(slice))
        /\ result.kind = "InvalidVersion" => slice[1] \div 64 # 2

----------------------------------------------------------------------------
(* Claims about the packetizer, under SpecPkt. *)

Consecutive(seqs) ==
    \A i \in 1..(Len(seqs) - 1) : seqs[i + 1] = (seqs[i] + 1) % 65536

\* C2: over any sequence of packetize calls on one packetizer, the sequence
\* numbers of the emitted packets, in emission order over all calls, are
\* consecutive modulo 65536 (so none repeats within 65536 packets), and the
\* packetizer's seq_number advances by exactly one per emitted packet.
C2_SeqConsecutive ==
    [][ /\ Consecutive(emitted')
        /\ \A i, j \in 1..Len(emitted') : i # j => emitted'[i] # emitted'[j]
        /\ packetizer'.seq_number
              = (packetizer.seq_number + Len(emitted') - Len(emitted)) % 65536
        /\ emitted' # <<>> => emitted'[Len(emitted')] = packetizer'.seq_number ]_vars

\* C2's case: the second call has emitted several packets after those of the
\* first, and the sequence number has wrapped from 65535 to 0 on the way.
C2_Witness ==
    /\ calls = 2
    /\ Len(packets) >= 2
    /\ Len(emitted) > Len(packets)
    /\ \E i \in 1..(Len(emitted) - 1) : emitted[i] = 65535 /\ emitted[i + 1] = 0

\* C3: in every packetize call that returns at least one packet, the last
\* returned packet has the marker set and every earlier one has it clear.
C3_MarkerOnLast ==
    (calls > 0 /\ packets # <<>>) =>
        /\ packets[Len(packets)].mark
        /\ \A i \in 1..(Len(packets) - 1) : ~packets[i].mark

\* C3's case: a call has returned three packets, the third with the marker.
C3_Witness ==
    /\ calls > 0
    /\ Len(packets) = 3
    /\ packets[3].mark
    /\ ~packets[1].mark

Min(a, b) == IF a < b THEN a ELSE b

RECURSIVE ConcatPayloads(_)
ConcatPayloads(ps) ==
    IF ps = <<>> THEN <<>> ELSE ps[1].payload \o ConcatPayloads(Tail(ps))

\* C4: with mtu > 12, packetize returns exactly ceil(length / (mtu - 12))
\* packets, the packet at position index carrying the payload bytes
\* [index*(mtu-12), min((index+1)*(mtu-12), length)); every packet payload is
\* non-empty and at most mtu - 12 bytes, and the payloads concatenated in
\* order are the input payload.
C4_Chunking ==
    (calls > 0 /\ packetizer.mtu > 12) =>
        LET cs == packetizer.mtu - 12
            n == Len(payload)
        IN  /\ pc = "ready"
            /\ Len(packets) = (n + cs - 1) \div cs
            /\ \A i \in 1..Len(packets) :
                  /\ packets[i].payload = SubSeq(payload, (i - 1) * cs + 1, Min(i * cs, n))
                  /\ Len(packets[i].payload) \in 1..cs
            /\ ConcatPayloads(packets) = payload

\* C4's case: the packetizer of MTU 100 has cut a 128-byte frame into two
\* packets of 88 and 40 bytes.
C4_Witness ==
    /\ calls > 0
    /\ packetizer.mtu = 100
    /\ Len(payload) = 128
    /\ Len(packets) = 2
    /\ Len(packets[1].payload) = 88
    /\ Len(packets[2].payload) = 40

\* C5: packetize never fails: for any payload length (zero included) and any
\* MTU of at least the 12-byte header (12 included), a call completes and
\* returns a possibly empty sequence of packets.
C5_PacketizeNeverFails ==
    packetizer.mtu >= 12 => pc # "panicked"

\* The sum of two 32-bit values modulo 2^32, written on 16-bit halves.
SumMod32(a, d) ==
    LET carry == IF a.lo + d.lo >= 65536 THEN 1 ELSE 0
    IN  [hi |-> (a.hi + d.hi + carry) % 65536, lo |-> (a.lo + d.lo) % 65536]

\* C11: every packetize call, one with a zero-length payload included,
\* advances the packetizer's timestamp by exactly frame_duration modulo 2^32
\* before any packet is built, and every packet the call returns carries that
\* new timestamp (so after calls with durations d1..dk the timestamp is the
\* initial one plus d1 + ... + dk modulo 2^32).
C11_TimestampAdvance ==
    [][ /\ calls' = calls + 1
        /\ packetizer'.timestamp = SumMod32(packetizer.timestamp, frames')
        /\ \A i \in 1..Len(packets') : packets'[i].timestamp = packetizer'.timestamp ]_vars

\* C11's case: a second call, of duration 2000, has wrapped the timestamp
\* past 2^32 - 1 and returned several packets that carry the wrapped value,
\* after a first call with a zero-length payload.
C11_Witness ==
    /\ calls = 2
    /\ Len(emitted) = Len(packets)
    /\ frames = [hi |-> 0, lo |-> 2000]
    /\ packetizer.timestamp = [hi |-> 0, lo |-> 1999]
    /\ Len(packets) >= 2
    /\ \A i \in 1..Len(packets) : packets[i].timestamp = [hi |-> 0, lo |-> 1999]

----------------------------------------------------------------------------
(* Claims about RTCP construction, under SpecRtcpNew. *)

\* C12: RtcpPacket::new applied to any payload_type and any payload gives a
\* packet with report_count 0, the given payload_type and payload, and a
\* length field equal to the payload's length, for every payload length
\* (lengths of 65536 bytes or more included).
C12_ConstructLength ==
    pc = "done" =>
        /\ result.kind = "Ok"
        /\ result.packet.cc = 0
        /\ result.packet.payload_type \in RtcpPayloadTypes
        /\ result.packet.payload = payload
        /\ result.packet.length = Len(payload)

====
